---- MODULE Spec2Model ----
(***************************************************************************)
(* Model of konfig2pr (src/main.py): the parameter validators, the         *)
(* manifest parser, the archive manifest extractor and the main run.       *)
(*                                                                         *)
(* A Python str is a sequence of one-character strings.  A Python value    *)
(* is a record [t, i, s]: its type tag, its integer (or list length) and   *)
(* its text.  The outcome of a call is a record [ok, val, exc, msg,        *)
(* detail, status]: the returned value, or the raised exception's class,   *)
(* its message and what the message interpolates (for a returned list,    *)
(* detail holds its items).                                                *)
(***************************************************************************)
EXTENDS Integers, Sequences, FiniteSets, TLC

VARIABLES
    fn, arg, ret,                        \* a call of one function: which, its input, its outcome
    pc, args, params, exc, version, deps,\* the main run: position, argv, validated values, pending exception
    requests, stdout, stderr, exit_code, \* the main run: what it has done so far
    stages, failed_at, cause, registry,  \* the main run: stages started, where and why it failed, the registry's answers
    xpc, py312, archive, unpacked,       \* the extractor: position, interpreter, its input, progress
    archive_file, temp_dir, first, xret  \* the extractor: the temp file, the scratch directory, outcome

callVars == <<fn, arg, ret>>
mainVars == <<pc, args, params, exc, version, deps, requests, stdout, stderr,
              exit_code, stages, failed_at, cause, registry>>
exVars == <<xpc, py312, archive, unpacked, archive_file, temp_dir, first, xret>>
vars == <<callVars, mainVars, exVars>>

-----------------------------------------------------------------------------
(* Bounds of the model *)

MaxNameChunks == 3
MaxRepoChunks == 4
MaxModeChunks == 3
MaxDepthChunks == 3
MaxDepthInt == 12
MaxManifestLines == 4
MaxDependencies == 2

\* every concatenation of at most n chunks of A
RECURSIVE ChunkStrings(_, _)
ChunkStrings(A, n) ==
    IF n = 0 THEN {<<>>}
    ELSE LET shorter == ChunkStrings(A, n - 1) IN
         shorter \cup {p \o c : p \in shorter, c \in A}

-----------------------------------------------------------------------------
(* Python str operations *)

Whitespace == {" ", "\t", "\n", "\r"}

RECURSIVE lstrip(_)
lstrip(s) ==
    IF s # <<>> /\ Head(s) \in Whitespace THEN lstrip(Tail(s)) ELSE s

RECURSIVE rstrip(_)
rstrip(s) ==
    IF s # <<>> /\ s[Len(s)] \in Whitespace THEN rstrip(SubSeq(s, 1, Len(s) - 1)) ELSE s

strip(s) == rstrip(lstrip(s))

startswith(s, p) == Len(s) >= Len(p) /\ SubSeq(s, 1, Len(p)) = p

endswith(s, p) == Len(s) >= Len(p) /\ SubSeq(s, Len(s) - Len(p) + 1, Len(s)) = p

\* index of the first occurrence of sub in s at or after from, or 0
RECURSIVE find(_, _, _)
find(s, sub, from) ==
    IF from + Len(sub) - 1 > Len(s) THEN 0
    ELSE IF SubSeq(s, from, from + Len(sub) - 1) = sub THEN from
    ELSE find(s, sub, from + 1)

contains(s, sub) == find(s, sub, 1) # 0

\* s.split(sep), sep not empty
RECURSIVE split(_, _)
split(s, sep) ==
    LET k == find(s, sep, 1) IN
    IF k = 0 THEN <<s>>
    ELSE <<SubSeq(s, 1, k - 1)>> \o split(SubSeq(s, k + Len(sep), Len(s)), sep)

UpperLetters == <<"A","B","C","D","E","F","G","H","I","J","K","L","M",
                  "N","O","P","Q","R","S","T","U","V","W","X","Y","Z">>
LowerLetters == <<"a","b","c","d","e","f","g","h","i","j","k","l","m",
                  "n","o","p","q","r","s","t","u","v","w","x","y","z">>

lower_char(c) ==
    IF \E k \in 1..Len(UpperLetters) : UpperLetters[k] = c
    THEN LowerLetters[CHOOSE k \in 1..Len(UpperLetters) : UpperLetters[k] = c]
    ELSE c

lower(s) == [k \in 1..Len(s) |-> lower_char(s[k])]

Digits == <<"0","1","2","3","4","5","6","7","8","9">>

IsDigit(c) == \E k \in 1..Len(Digits) : Digits[k] = c

DigitValue(c) == (CHOOSE k \in 1..Len(Digits) : Digits[k] = c) - 1

-----------------------------------------------------------------------------
(* Python values and call outcomes *)

PyNone == [t |-> "none", i |-> 0, s |-> <<>>]
PyInt(n) == [t |-> "int", i |-> n, s |-> <<>>]
PyStr(s) == [t |-> "str", i |-> 0, s |-> s]
PyList(n) == [t |-> "list", i |-> n, s |-> <<>>]

\* bool(v)
truthy(v) ==
    CASE v.t = "none" -> FALSE
      [] v.t = "int" -> v.i # 0
      [] v.t = "str" -> v.s # <<>>
      [] v.t = "list" -> v.i # 0

NoStatus == {}

Return(v) ==
    [ok |-> TRUE, val |-> v, exc |-> "", msg |-> "", detail |-> <<>>, status |-> NoStatus]

Raise(cls, m) ==
    [ok |-> FALSE, val |-> PyNone, exc |-> cls, msg |-> m, detail |-> <<>>, status |-> NoStatus]

ReturnList(items) ==
    [ok |-> TRUE, val |-> PyList(Len(items)), exc |-> "", msg |-> "", detail |-> items,
     status |-> NoStatus]

RaiseWith(cls, m, d) ==
    [ok |-> FALSE, val |-> PyNone, exc |-> cls, msg |-> m, detail |-> d, status |-> NoStatus]

Pending == [ok |-> FALSE, val |-> PyNone, exc |-> "", msg |-> "pending", detail |-> <<>>, status |-> NoStatus]

-----------------------------------------------------------------------------
(* The parameter validators *)

validate_package_name_no_strip(name) ==
    IF ~truthy(name) \/ name.t # "str"
    THEN Raise("ValueError", "package name must be a non-empty string")
    ELSE IF Len(strip(name.s)) = 0
    THEN Raise("ValueError", "package name must not be empty or blank")
    ELSE Return(PyStr(name.s))

validate_package_name(name) ==
    IF ~truthy(name) \/ name.t # "str"
    THEN Raise("ValueError", "package name must be a non-empty string")
    ELSE IF Len(strip(name.s)) = 0
    THEN Raise("ValueError", "package name must not be empty or blank")
    ELSE Return(PyStr(strip(name.s)))

http_prefix == <<"h","t","t","p",":","/","/">>
https_prefix == <<"h","t","t","p","s",":","/","/">>
scheme_sep == <<":","/","/">>

\* repo.split('://')[1].split('/')[0]
host_segment(repo) == split(split(repo, scheme_sep)[2], <<"/">>)[1]

validate_repository_whole_url(repo) ==
    IF ~truthy(repo) \/ repo.t # "str"
    THEN Raise("ValueError", "repository must be a non-empty string")
    ELSE LET r == strip(repo.s) IN
         IF Len(r) = 0
         THEN Raise("ValueError", "repository must be a non-empty string")
         ELSE IF startswith(r, http_prefix) \/ startswith(r, https_prefix)
         THEN IF ~contains(r, scheme_sep) \/ ~contains(split(r, scheme_sep)[2], <<".">>)
              THEN Raise("ValueError", "malformed repository URL")
              ELSE Return(PyStr(r))
         ELSE Return(PyStr(r))

validate_repository(repo) ==
    IF ~truthy(repo) \/ repo.t # "str"
    THEN Raise("ValueError", "repository must be a non-empty string")
    ELSE LET r == strip(repo.s) IN
         IF Len(r) = 0
         THEN Raise("ValueError", "repository must be a non-empty string")
         ELSE IF startswith(r, http_prefix) \/ startswith(r, https_prefix)
         THEN IF ~contains(r, scheme_sep) \/ ~contains(host_segment(r), <<".">>)
              THEN Raise("ValueError", "malformed repository URL")
              ELSE Return(PyStr(r))
         ELSE Return(PyStr(r))

production == <<"p","r","o","d","u","c","t","i","o","n">>
development == <<"d","e","v","e","l","o","p","m","e","n","t">>
test == <<"t","e","s","t">>

valid_modes == <<production, development, test>>

validate_mode_no_lower(mode) ==
    IF mode.t = "none" THEN Return(PyStr(production))
    ELSE IF mode.t # "str" THEN Raise("ValueError", "mode must be a string")
    ELSE LET m == strip(mode.s) IN
         IF ~(\E k \in 1..Len(valid_modes) : valid_modes[k] = m)
         THEN RaiseWith("ValueError", "invalid mode", m)
         ELSE Return(PyStr(m))

validate_mode(mode) ==
    IF mode.t = "none" THEN Return(PyStr(production))
    ELSE IF mode.t # "str" THEN Raise("ValueError", "mode must be a string")
    ELSE LET m == strip(lower(mode.s)) IN
         IF ~(\E k \in 1..Len(valid_modes) : valid_modes[k] = m)
         THEN RaiseWith("ValueError", "invalid mode", m)
         ELSE Return(PyStr(m))

\* the digits of an int() literal: digits, single underscores between them
RECURSIVE digits_ok(_, _)
digits_ok(s, prev_digit) ==
    IF s = <<>> THEN prev_digit
    ELSE IF IsDigit(Head(s)) THEN digits_ok(Tail(s), TRUE)
    ELSE IF Head(s) = "_" /\ prev_digit THEN digits_ok(Tail(s), FALSE)
    ELSE FALSE

RECURSIVE digits_value(_, _)
digits_value(s, acc) ==
    IF s = <<>> THEN acc
    ELSE IF Head(s) = "_" THEN digits_value(Tail(s), acc)
    ELSE digits_value(Tail(s), 10 * acc + DigitValue(Head(s)))

\* int(v): [ok, n]; not ok stands for TypeError or ValueError
int_of(v) ==
    CASE v.t = "int" -> [ok |-> TRUE, n |-> v.i]
      [] v.t = "str" ->
            LET t == strip(v.s)
                signed == t # <<>> /\ Head(t) \in {"+", "-"}
                body == IF signed THEN Tail(t) ELSE t
            IN IF body # <<>> /\ digits_ok(body, FALSE)
               THEN [ok |-> TRUE,
                     n |-> IF signed /\ Head(t) = "-"
                           THEN 0 - digits_value(body, 0) ELSE digits_value(body, 0)]
               ELSE [ok |-> FALSE, n |-> 0]
      [] OTHER -> [ok |-> FALSE, n |-> 0]

DefaultDepth == 3
MinDepth == 1
MaxDepth == 10

validate_depth_off_by_one(depth) ==
    IF depth.t = "none" THEN Return(PyInt(DefaultDepth))
    ELSE LET c == int_of(depth) IN
         IF ~c.ok THEN Raise("ValueError", "depth must be an integer")
         ELSE IF c.n < MinDepth THEN Raise("ValueError", "depth must be positive")
         ELSE IF c.n > MaxDepth + 1 THEN Raise("ValueError", "depth must not exceed 10")
         ELSE Return(PyInt(c.n))

validate_depth(depth) ==
    IF depth.t = "none" THEN Return(PyInt(DefaultDepth))
    ELSE LET c == int_of(depth) IN
         IF ~c.ok THEN Raise("ValueError", "depth must be an integer")
         ELSE IF c.n < MinDepth THEN Raise("ValueError", "depth must be positive")
         ELSE IF c.n > MaxDepth THEN Raise("ValueError", "depth must not exceed 10")
         ELSE Return(PyInt(c.n))

-----------------------------------------------------------------------------
(* extract_dependencies_from_cargo_toml: the two regular expressions, matched  *)
(* as re.findall matches them, and the interpretation of a value               *)

\* the first index at or after from whose character is ch, or Len(s) + 1
RECURSIVE index_of(_, _, _)
index_of(s, ch, from) ==
    IF from > Len(s) THEN Len(s) + 1
    ELSE IF s[from] = ch THEN from
    ELSE index_of(s, ch, from + 1)

\* \s* from position from: the first index at or after it that is not whitespace
RECURSIVE skip_ws(_, _)
skip_ws(s, from) ==
    IF from <= Len(s) /\ s[from] \in Whitespace THEN skip_ws(s, from + 1) ELSE from

\* (?=\n\[|$) without re.MULTILINE, at position k
section_end_at(c, k) ==
    \/ k = Len(c) + 1
    \/ k = Len(c) /\ c[k] = "\n"
    \/ k < Len(c) /\ c[k] = "\n" /\ c[k + 1] = "["

\* (.*?) with re.DOTALL: the first position at or after from where the lookahead holds
RECURSIVE section_end(_, _)
section_end(c, from) ==
    IF section_end_at(c, from) THEN from ELSE section_end(c, from + 1)

\* re.findall(r'\[([^\]]+)\](.*?)(?=\n\[|$)', content, re.DOTALL) from position pos
RECURSIVE find_sections(_, _)
find_sections(c, pos) ==
    IF pos > Len(c) THEN <<>>
    ELSE IF c[pos] # "[" THEN find_sections(c, pos + 1)
    ELSE LET j == index_of(c, "]", pos + 1) IN
         IF j > Len(c) \/ j = pos + 1 THEN find_sections(c, pos + 1)
         ELSE LET k == section_end(c, j + 1) IN
              <<[name |-> SubSeq(c, pos + 1, j - 1), body |-> SubSeq(c, j + 1, k - 1)]>>
                  \o find_sections(c, k)

KeyChars ==
    {UpperLetters[k] : k \in 1..Len(UpperLetters)}
        \cup {LowerLetters[k] : k \in 1..Len(LowerLetters)}
        \cup {Digits[k] : k \in 1..Len(Digits)} \cup {"_", "-"}

\* [a-zA-Z0-9_-]+ from position from: the first index at or after it that is no key character
RECURSIVE skip_key(_, _)
skip_key(s, from) ==
    IF from <= Len(s) /\ s[from] \in KeyChars THEN skip_key(s, from + 1) ELSE from

\* ^ with re.MULTILINE
line_start(s, p) == p = 1 \/ s[p - 1] = "\n"

\* ^\s*([a-zA-Z0-9_-]+)\s*=\s*(.*)$ matched at position p: [ok, key, value, stop]
dep_match_at(s, p) ==
    LET q == skip_ws(s, p)
        r == skip_key(s, q)
        t == skip_ws(s, r)
        u == skip_ws(s, t + 1)
        v == index_of(s, "\n", u)
    IN IF line_start(s, p) /\ r > q /\ t <= Len(s) /\ s[t] = "="
       THEN [ok |-> TRUE, key |-> SubSeq(s, q, r - 1), value |-> SubSeq(s, u, v - 1), stop |-> v]
       ELSE [ok |-> FALSE, key |-> <<>>, value |-> <<>>, stop |-> p]

\* re.findall(..., section_content, re.MULTILINE) from position pos
RECURSIVE find_deps(_, _)
find_deps(s, pos) ==
    IF pos > Len(s) THEN <<>>
    ELSE LET m == dep_match_at(s, pos) IN
         IF m.ok THEN <<[key |-> m.key, value |-> m.value]>> \o find_deps(s, m.stop)
         ELSE find_deps(s, pos + 1)

version_word == <<"v","e","r","s","i","o","n">>
unknown == <<"u","n","k","n","o","w","n">>

\* version\s*=\s*"([^"]+)" matched at position p: [ok, group]
version_match_at(s, p) ==
    LET t == skip_ws(s, p + Len(version_word))
        u == skip_ws(s, t + 1)
        b == index_of(s, "\"", u + 1)
    IN IF /\ p + Len(version_word) - 1 <= Len(s)
          /\ SubSeq(s, p, p + Len(version_word) - 1) = version_word
          /\ t <= Len(s) /\ s[t] = "="
          /\ u <= Len(s) /\ s[u] = "\""
          /\ b <= Len(s) /\ b > u + 1
       THEN [ok |-> TRUE, group |-> SubSeq(s, u + 1, b - 1)]
       ELSE [ok |-> FALSE, group |-> <<>>]

\* re.search(r'version\s*=\s*"([^"]+)"', dep_value) from position p
RECURSIVE version_search(_, _)
version_search(s, p) ==
    IF p > Len(s) THEN [ok |-> FALSE, group |-> <<>>]
    ELSE IF version_match_at(s, p).ok THEN version_match_at(s, p)
    ELSE version_search(s, p + 1)

\* the record appended for one match of the dependency expression
dependency_record(key, raw) ==
    LET dep_value == strip(split(raw, <<"#">>)[1]) IN
    IF startswith(dep_value, <<"\"">>) /\ endswith(dep_value, <<"\"">>)
    THEN [name |-> strip(key), version |-> SubSeq(dep_value, 2, Len(dep_value) - 1)]
    ELSE IF startswith(dep_value, <<"{">>) /\ endswith(dep_value, <<"}">>)
    THEN IF version_search(dep_value, 1).ok
         THEN [name |-> strip(key), version |-> version_search(dep_value, 1).group]
         ELSE [name |-> strip(key), version |-> unknown]
    ELSE [name |-> strip(key), version |-> unknown]

dependencies_word == <<"d","e","p","e","n","d","e","n","c","i","e","s">>

is_dependency_section(section_name) ==
    \/ strip(section_name) = dependencies_word
    \/ startswith(strip(section_name), dependencies_word \o <<".">>)

RECURSIVE section_records(_, _)
section_records(matches, k) ==
    IF k > Len(matches) THEN <<>>
    ELSE <<dependency_record(matches[k].key, matches[k].value)>>
             \o section_records(matches, k + 1)

RECURSIVE collect_dependencies(_, _)
collect_dependencies(sections, k) ==
    IF k > Len(sections) THEN <<>>
    ELSE (IF is_dependency_section(sections[k].name)
          THEN section_records(find_deps(sections[k].body, 1), 1)
          ELSE <<>>) \o collect_dependencies(sections, k + 1)

\* the list returned for a manifest whose text is content
extract_dependencies_from_cargo_toml(content) ==
    collect_dependencies(find_sections(content, 1), 1)

-----------------------------------------------------------------------------
(* Inputs of the validators *)

upper_char(c) ==
    IF \E k \in 1..Len(LowerLetters) : LowerLetters[k] = c
    THEN UpperLetters[CHOOSE k \in 1..Len(LowerLetters) : LowerLetters[k] = c]
    ELSE c

upper(s) == [k \in 1..Len(s) |-> upper_char(s[k])]

capitalized(s) == <<upper_char(Head(s))>> \o Tail(s)

NonStrings ==
    {PyNone, PyList(0), PyList(2)} \cup {PyInt(n) : n \in (0 - MaxDepthInt)..MaxDepthInt}

NameChunks == {<<" ">>, <<"\t">>, <<"m", "y">>, <<"-">>}
NameInputs == NonStrings \cup {PyStr(s) : s \in ChunkStrings(NameChunks, MaxNameChunks)}

RepoChunks == {<<" ">>, http_prefix, https_prefix, <<"a", "b">>, <<".">>, <<"/">>}
RepoInputs == NonStrings \cup {PyStr(s) : s \in ChunkStrings(RepoChunks, MaxRepoChunks)}

ModeChunks == {<<" ">>, production, upper(production), capitalized(test), <<"x">>}
ModeStrings ==
    ChunkStrings(ModeChunks, MaxModeChunks)
        \cup {development, upper(development), test, upper(test), <<"\n">> \o test}
ModeInputs == NonStrings \cup {PyStr(s) : s \in ModeStrings}

DepthChunks == {<<" ">>, <<"-">>, <<"+">>, <<"_">>, <<"0">>, <<"1">>, <<"5">>, <<"a">>}
DepthInputs == NonStrings \cup {PyStr(s) : s \in ChunkStrings(DepthChunks, MaxDepthChunks)}

-----------------------------------------------------------------------------
(* Idle values of the variables a specification does not use *)

IdleCall == fn = "none" /\ arg = PyNone /\ ret = Pending

IdleMain ==
    /\ pc = "idle" /\ args = <<>> /\ params = <<>> /\ exc = Pending
    /\ version = <<>> /\ deps = <<>> /\ requests = <<>> /\ stdout = <<>>
    /\ stderr = <<>> /\ exit_code = -1 /\ stages = <<>> /\ failed_at = "none"
    /\ cause = "none" /\ registry = <<>>

IdleExtract ==
    /\ xpc = "idle" /\ py312 = FALSE /\ archive = <<>> /\ unpacked = FALSE
    /\ archive_file = "absent" /\ temp_dir = {} /\ first = "" /\ xret = Pending

-----------------------------------------------------------------------------
(* The validators, each called once on an input drawn from its input set *)

ValidatorInputs(f) ==
    CASE f = "validate_package_name" -> NameInputs
      [] f = "validate_repository" -> RepoInputs
      [] f = "validate_mode" -> ModeInputs
      [] f = "validate_depth" -> DepthInputs

ValidatorNames ==
    {"validate_package_name", "validate_repository", "validate_mode", "validate_depth"}

InitValidate ==
    /\ fn \in ValidatorNames
    /\ arg \in ValidatorInputs(fn)
    /\ ret = Pending
    /\ IdleMain /\ IdleExtract

CallValidatePackageName ==
    /\ fn = "validate_package_name" /\ ret = Pending
    /\ ret' = validate_package_name(arg)
    /\ UNCHANGED <<fn, arg, mainVars, exVars>>

CallValidateRepository ==
    /\ fn = "validate_repository" /\ ret = Pending
    /\ ret' = validate_repository(arg)
    /\ UNCHANGED <<fn, arg, mainVars, exVars>>

CallValidateMode ==
    /\ fn = "validate_mode" /\ ret = Pending
    /\ ret' = validate_mode(arg)
    /\ UNCHANGED <<fn, arg, mainVars, exVars>>

CallValidateDepth ==
    /\ fn = "validate_depth" /\ ret = Pending
    /\ ret' = validate_depth(arg)
    /\ UNCHANGED <<fn, arg, mainVars, exVars>>

NextValidate ==
    \/ CallValidatePackageName
    \/ CallValidateRepository
    \/ CallValidateMode
    \/ CallValidateDepth

SpecValidate == InitValidate /\ [][NextValidate]_vars

Returned(f) == fn = f /\ ret # Pending

\* r is s without its surrounding whitespace: s is r between two runs of whitespace
IsTrimOf(r, s) ==
    /\ r # <<>> /\ r[1] \notin Whitespace /\ r[Len(r)] \notin Whitespace
    /\ \E i \in 0..(Len(s) - Len(r)) :
          /\ SubSeq(s, i + 1, i + Len(r)) = r
          /\ \A k \in 1..i : s[k] \in Whitespace
          /\ \A k \in (i + Len(r) + 1)..Len(s) : s[k] \in Whitespace

Blank(s) == \A k \in 1..Len(s) : s[k] \in Whitespace

\* s from its first to its last character that is not whitespace
Trimmed(s) ==
    LET inked == {k \in 1..Len(s) : s[k] \notin Whitespace} IN
    IF inked = {} THEN <<>>
    ELSE SubSeq(s, CHOOSE k \in inked : \A j \in inked : k <= j,
                   CHOOSE k \in inked : \A j \in inked : k >= j)

\* C5: validate_depth returns 3 for absent input; an input that coerces to an
\* integer n is returned as n exactly when 1 <= n <= 10, fails "must be positive"
\* when n < 1 and "must not exceed 10" when n > 10; an input that does not coerce
\* fails "must be an integer"; no returned value lies outside [1,10].
C5_ValidateDepth ==
    Returned("validate_depth") =>
        /\ arg.t = "none" => ret = Return(PyInt(3))
        /\ arg.t # "none" /\ int_of(arg).ok =>
              LET n == int_of(arg).n IN
              /\ (1 <= n /\ n <= 10) <=> ret.ok
              /\ ret.ok => ret.val = PyInt(n)
              /\ n < 1 => ret = Raise("ValueError", "depth must be positive")
              /\ n > 10 => ret = Raise("ValueError", "depth must not exceed 10")
        /\ arg.t # "none" /\ ~int_of(arg).ok =>
              ret = Raise("ValueError", "depth must be an integer")
        /\ ret.ok => ret.val.t = "int" /\ 1 <= ret.val.i /\ ret.val.i <= 10
        /\ arg = PyStr(<<"5">>) => ret = Return(PyInt(5))
        /\ arg \in {PyStr(<<"1", "5">>), PyInt(11)} =>
              ret = Raise("ValueError", "depth must not exceed 10")
        /\ arg \in {PyInt(0), PyInt(-1), PyStr(<<"-", "1">>)} =>
              ret = Raise("ValueError", "depth must be positive")
        /\ arg \in {PyStr(<<"a", "a", "a">>), PyStr(<<>>), PyList(0)} =>
              ret = Raise("ValueError", "depth must be an integer")

C5_Witness ==
    /\ Returned("validate_depth")
    /\ arg = PyStr(<<" ", "1", "0">>)
    /\ ret = Return(PyInt(10))

\* the text of a URL-shaped r between the scheme separator and the next "/"
UrlShaped(r) == startswith(r, http_prefix) \/ startswith(r, https_prefix)

HostText(r) ==
    LET p == IF startswith(r, https_prefix) THEN Len(https_prefix) ELSE Len(http_prefix)
        rest == SubSeq(r, p + 1, Len(r))
        slashes == {k \in 1..Len(rest) : rest[k] = "/"}
    IN IF slashes = {} THEN rest
       ELSE SubSeq(rest, 1, (CHOOSE k \in slashes : \A j \in slashes : k <= j) - 1)

HasDot(s) == \E k \in 1..Len(s) : s[k] = "."

\* C6: validate_repository fails for missing, non-string or whitespace-only
\* input; a trimmed value starting with http:// or https:// is accepted exactly
\* when the text between the scheme separator and the next "/" contains a ".";
\* every other non-empty string is accepted; the value returned is the trimmed input.
C6_ValidateRepository ==
    Returned("validate_repository") =>
        /\ arg.t # "str" => ~ret.ok /\ ret.exc = "ValueError"
        /\ arg.t = "str" /\ Blank(arg.s) => ~ret.ok /\ ret.exc = "ValueError"
        /\ arg.t = "str" /\ ~Blank(arg.s) =>
              LET r == Trimmed(arg.s)
              IN /\ IsTrimOf(r, arg.s)
                 /\ UrlShaped(r) => (ret.ok <=> HasDot(HostText(r)))
                 /\ ~UrlShaped(r) => ret.ok
                 /\ ret.ok => ret.val = PyStr(r)
                 /\ ~ret.ok => ret = Raise("ValueError", "malformed repository URL")

C6_Witness ==
    /\ Returned("validate_repository")
    /\ arg = PyStr(http_prefix \o <<"a", "b", "/", ".">>)
    /\ ~ret.ok

\* two characters that are the same letter in either case, or the same character
SameLetter(c, d) ==
    \/ c = d
    \/ \E k \in 1..Len(UpperLetters) : {c, d} = {UpperLetters[k], LowerLetters[k]}

\* s and t differ only in letter case and surrounding whitespace
CaseWsVariant(s, t) ==
    LET a == Trimmed(s)
        b == Trimmed(t)
    IN /\ Len(a) = Len(b)
       /\ \A k \in 1..Len(a) : SameLetter(a[k], b[k])

\* C7: validate_mode gives the same outcome for inputs that differ only in letter
\* case and surrounding whitespace; a successful result is one of production,
\* development, test and validating it again returns it; absent input yields
\* production and a non-string input fails.
C7_ValidateMode ==
    Returned("validate_mode") =>
        /\ arg.t = "none" => ret = Return(PyStr(production))
        /\ arg.t \notin {"none", "str"} => ~ret.ok /\ ret.exc = "ValueError"
        /\ ret.ok =>
              /\ ret.val \in {PyStr(production), PyStr(development), PyStr(test)}
              /\ validate_mode(ret.val) = ret
        /\ arg.t = "str" =>
              \A t \in ModeStrings :
                  CaseWsVariant(arg.s, t) => validate_mode(PyStr(t)) = ret

C7_Witness ==
    /\ Returned("validate_mode")
    /\ arg = PyStr(<<" ">> \o upper(production) \o <<" ">>)
    /\ ret = Return(PyStr(production))

\* C8: validate_package_name fails for an input that is missing, not a string,
\* empty or only whitespace; for every other input it returns the input without
\* its surrounding whitespace, the content unchanged; a result is never empty.
C8_ValidatePackageName ==
    Returned("validate_package_name") =>
        /\ arg.t # "str" => ~ret.ok /\ ret.exc = "ValueError"
        /\ arg.t = "str" /\ Blank(arg.s) => ~ret.ok /\ ret.exc = "ValueError"
        /\ arg.t = "str" /\ ~Blank(arg.s) =>
              /\ ret.ok /\ ret.val.t = "str"
              /\ IsTrimOf(ret.val.s, arg.s)
        /\ ret.ok => ret.val.s # <<>>

C8_Witness ==
    /\ Returned("validate_package_name")
    /\ arg = PyStr(<<" ", "m", "y", "\t">>)
    /\ ret = Return(PyStr(<<"m", "y">>))

-----------------------------------------------------------------------------
(* The manifest parser, called once on a manifest text made of whole lines *)

\* the lines the manifests are made of, each with what it declares
ManifestLines ==
    { [text |-> <<"[","d","e","p","e","n","d","e","n","c","i","e","s","]">>,
       kind |-> "dependencies header", name |-> <<>>, version |-> <<>>],
      [text |-> <<"[","p","a","c","k","a","g","e","]">>,
       kind |-> "other header", name |-> <<>>, version |-> <<>>],
      [text |-> <<"[","d","e","p","e","n","d","e","n","c","i","e","s",".","z","]">>,
       kind |-> "dependencies header", name |-> <<>>, version |-> <<>>],
      [text |-> <<"a"," ","="," ","\"","1","\"">>,
       kind |-> "assignment", name |-> <<"a">>, version |-> <<"1">>],
      [text |-> <<"b"," ","="," ","{"," ","v","e","r","s","i","o","n"," ","="," ","\"","2","\""," ","}">>,
       kind |-> "assignment", name |-> <<"b">>, version |-> <<"2">>],
      [text |-> <<"c"," ","="," ","{"," ","g","i","t"," ","="," ","\"","u","\""," ","}">>,
       kind |-> "assignment", name |-> <<"c">>, version |-> unknown],
      [text |-> <<"d"," ","="," ","1"," ","#"," ","\"","3","\"">>,
       kind |-> "assignment", name |-> <<"d">>, version |-> unknown],
      [text |-> <<"a"," ","="," ","\"","4","\""," ","#"," ","x">>,
       kind |-> "assignment", name |-> <<"a">>, version |-> <<"4">>],
      [text |-> <<"e"," ","=">>,
       kind |-> "assignment without value", name |-> <<"e">>, version |-> unknown],
      [text |-> <<"#"," ","f"," ","="," ","\"","5","\"">>,
       kind |-> "comment", name |-> <<>>, version |-> <<>>],
      [text |-> <<>>,
       kind |-> "blank", name |-> <<>>, version |-> <<>>] }

ManifestTexts == ChunkStrings({l.text \o <<"\n">> : l \in ManifestLines}, MaxManifestLines)

InitParse ==
    /\ fn = "extract_dependencies_from_cargo_toml"
    /\ arg \in {PyStr(c) : c \in ManifestTexts}
    /\ ret = Pending
    /\ IdleMain /\ IdleExtract

CallExtractDependencies ==
    /\ fn = "extract_dependencies_from_cargo_toml" /\ ret = Pending
    /\ ret' = ReturnList(extract_dependencies_from_cargo_toml(arg.s))
    /\ UNCHANGED <<fn, arg, mainVars, exVars>>

NextParse == CallExtractDependencies

SpecParse == InitParse /\ [][NextParse]_vars

LineOf(text) == CHOOSE l \in ManifestLines : l.text = text

\* one record per assignment line of a dependency section, in the order of the
\* lines; with_empty says whether a "key =" line without a value is an assignment
RECURSIVE DeclaredDependencies(_, _, _, _)
DeclaredDependencies(lines, k, in_dependencies, with_empty) ==
    IF k > Len(lines) THEN <<>>
    ELSE LET l == LineOf(lines[k]) IN
         CASE l.kind = "dependencies header" ->
                  DeclaredDependencies(lines, k + 1, TRUE, with_empty)
           [] l.kind = "other header" ->
                  DeclaredDependencies(lines, k + 1, FALSE, with_empty)
           [] l.kind = "assignment" /\ in_dependencies ->
                  <<[name |-> l.name, version |-> l.version]>>
                      \o DeclaredDependencies(lines, k + 1, in_dependencies, with_empty)
           [] l.kind = "assignment without value" /\ in_dependencies /\ with_empty ->
                  <<[name |-> l.name, version |-> l.version]>>
                      \o DeclaredDependencies(lines, k + 1, in_dependencies, with_empty)
           [] OTHER -> DeclaredDependencies(lines, k + 1, in_dependencies, with_empty)

\* C10: extract_dependencies_from_cargo_toml returns exactly one record per
\* "key = value" line of a section named dependencies or prefixed "dependencies.",
\* in the order of the text, duplicates kept, nothing from another section; a
\* quoted value yields the literal, an inline table its version entry or
\* "unknown", any other shape "unknown".  (Stated for either reading of a
\* "key =" line without a value: an assignment of an unrecognized shape, or none.)
C10_OneRecordPerAssignmentLine ==
    Returned("extract_dependencies_from_cargo_toml") =>
        /\ ret.ok
        /\ \E with_empty \in BOOLEAN :
              ret.detail = DeclaredDependencies(split(arg.s, <<"\n">>), 1, FALSE, with_empty)

-----------------------------------------------------------------------------
(* extract_cargo_toml_from_archive, step by step.  The archive is a record  *)
(* [gzip, members]: whether it opens as a .tar.gz, and its members, each a  *)
(* [top, rel]: its first path component and the rest of its path.  The      *)
(* scratch directory temp_dir starts empty and holds the members unpacked   *)
(* into it.                                                                  *)

UnsafeMember == [top |-> "..", rel |-> "evil"]

ArchiveMembers ==
    { [top |-> "pkg-1.0", rel |-> "Cargo.toml"],
      [top |-> "pkg-1.0", rel |-> "src/lib.rs"],
      [top |-> "zzz", rel |-> "Cargo.toml"],
      [top |-> "zzz", rel |-> "sub/Cargo.toml"],
      [top |-> "README", rel |-> ""],
      UnsafeMember }

\* os.listdir(temp_dir), as a set: the order of the listing is the file system's
listdir(dir) == {m.top : m \in dir}

\* os.path.exists(os.path.join(temp_dir, first, 'Cargo.toml'))
cargo_toml_exists_unchecked(dir, top) == TRUE

cargo_toml_exists(dir, top) == [top |-> top, rel |-> "Cargo.toml"] \in dir

cargo_toml_path(top) == <<"temp_dir", top, "Cargo.toml">>

ReturnPath(path) ==
    [ok |-> TRUE, val |-> PyStr(path), exc |-> "", msg |-> "", detail |-> <<>>,
     status |-> NoStatus]

InitExtract ==
    /\ xpc = "create"
    /\ py312 \in BOOLEAN
    /\ archive \in [gzip : BOOLEAN, members : SUBSET ArchiveMembers]
    /\ unpacked = FALSE
    /\ archive_file = "absent"
    /\ temp_dir = {}
    /\ first = ""
    /\ xret = Pending
    /\ IdleCall /\ IdleMain

\* the finally clause, lines 179-181: os.unlink(archive_path), then the outcome
LeaveTry(outcome) ==
    /\ archive_file' = "removed"
    /\ xret' = outcome
    /\ xpc' = "done"

\* line 151: tempfile.NamedTemporaryFile(delete=False, suffix='.crate')
CreateArchiveFile ==
    /\ xpc = "create"
    /\ \/ /\ archive_file' = "exists"
          /\ xpc' = "write"
          /\ xret' = xret
       \/ /\ archive_file' = "absent"
          /\ xpc' = "done"
          /\ xret' = Raise("OSError", "cannot create the temporary file")
    /\ UNCHANGED <<py312, archive, unpacked, temp_dir, first, callVars, mainVars>>

\* lines 152-153: archive_file.write(archive_content), inside the with block and
\* before the try: a failure closes the file and leaves the function
WriteArchiveFile ==
    /\ xpc = "write"
    /\ \/ /\ xpc' = "open"
          /\ xret' = xret
       \/ /\ xpc' = "done"
          /\ xret' \in {Raise("OSError", "cannot write the temporary file"),
                        Raise("TypeError", "a bytes-like object is required")}
    /\ UNCHANGED <<py312, archive, unpacked, archive_file, temp_dir, first, callVars, mainVars>>

\* line 157: tarfile.open(archive_path, 'r:gz')
OpenArchive ==
    /\ xpc = "open"
    /\ IF archive.gzip
       THEN xpc' = "extractall" /\ UNCHANGED <<archive_file, xret>>
       ELSE LeaveTry(Raise("ReadError", "not a gzip file"))
    /\ UNCHANGED <<py312, archive, unpacked, temp_dir, first, callVars, mainVars>>

\* lines 158-163: tar.extractall(path=temp_dir[, filter='data']).  The data
\* filter refuses a member outside the destination; without the filter such a
\* member is written outside temp_dir.  The file system may fail part-way.
ExtractAll ==
    /\ xpc = "extractall"
    /\ \/ /\ py312 /\ UnsafeMember \in archive.members
          /\ temp_dir' \in SUBSET (archive.members \ {UnsafeMember})
          /\ unpacked' = unpacked
          /\ LeaveTry(Raise("FilterError", "member outside the destination"))
          /\ first' = first
       \/ /\ temp_dir' \in SUBSET (archive.members \ {UnsafeMember})
          /\ temp_dir' # archive.members \ {UnsafeMember}
          /\ unpacked' = unpacked
          /\ LeaveTry(Raise("OSError", "cannot write a member"))
          /\ first' = first
       \/ /\ ~(py312 /\ UnsafeMember \in archive.members)
          /\ temp_dir' = archive.members \ {UnsafeMember}
          /\ unpacked' = TRUE
          /\ xpc' = "listdir"
          /\ UNCHANGED <<archive_file, xret, first>>
    /\ UNCHANGED <<py312, archive, callVars, mainVars>>

\* lines 166-168: the listing of temp_dir is empty
CheckExtracted ==
    /\ xpc = "listdir"
    /\ IF listdir(temp_dir) = {}
       THEN LeaveTry(Raise("FileNotFoundError", "archive is empty"))
       ELSE xpc' = "locate" /\ UNCHANGED <<archive_file, xret>>
    /\ UNCHANGED <<py312, archive, unpacked, temp_dir, first, callVars, mainVars>>

\* lines 171-177: the first entry of the listing, the manifest under it
LocateCargoToml ==
    /\ xpc = "locate"
    /\ \E top \in listdir(temp_dir) :
          /\ first' = top
          /\ IF ~cargo_toml_exists(temp_dir, top)
             THEN LeaveTry(Raise("FileNotFoundError", "Cargo.toml not found in the archive"))
             ELSE LeaveTry(ReturnPath(cargo_toml_path(top)))
    /\ UNCHANGED <<py312, archive, unpacked, temp_dir, callVars, mainVars>>

NextExtract ==
    \/ CreateArchiveFile
    \/ WriteArchiveFile
    \/ OpenArchive
    \/ ExtractAll
    \/ CheckExtracted
    \/ LocateCargoToml

SpecExtract == InitExtract /\ [][NextExtract]_vars

\* C4: when a call of extract_cargo_toml_from_archive ends, on any exit path, the
\* temporary archive file it created no longer exists.
C4_ArchiveFileRemovedOnEveryExit ==
    xpc = "done" => archive_file # "exists"

\* the top-level entries the archive unpacks to
TopLevelOf(a) == {m.top : m \in a.members \ {UnsafeMember}}

\* C9: the extractor fails "archive is empty" whenever unpacking produced no
\* top-level entry, fails "manifest not found" whenever the first top-level entry
\* holds no manifest, and returns a manifest path only when a manifest exists
\* under the first top-level entry unpacked from the archive.
C9_ExtractionErrors ==
    xpc = "done" =>
        /\ unpacked /\ TopLevelOf(archive) = {} =>
              xret = Raise("FileNotFoundError", "archive is empty")
        /\ unpacked /\ first # ""
              /\ [top |-> first, rel |-> "Cargo.toml"] \notin archive.members =>
              xret = Raise("FileNotFoundError", "Cargo.toml not found in the archive")
        /\ xret.ok =>
              /\ unpacked
              /\ first \in TopLevelOf(archive)
              /\ [top |-> first, rel |-> "Cargo.toml"] \in archive.members
              /\ xret.val = PyStr(cargo_toml_path(first))
        /\ xret.exc = "FileNotFoundError" /\ xret.msg = "archive is empty" =>
              unpacked /\ TopLevelOf(archive) = {}

C9_Witness ==
    /\ xpc = "done"
    /\ unpacked
    /\ first = "zzz"
    /\ "pkg-1.0" \in TopLevelOf(archive)
    /\ [top |-> "zzz", rel |-> "Cargo.toml"] \notin archive.members
    /\ xret = Raise("FileNotFoundError", "Cargo.toml not found in the archive")

-----------------------------------------------------------------------------
(* main, stage by stage.  An exception raised inside the try block is kept in *)
(* exc until the except clauses handle it.                                    *)

\* the classes an exception of class cls is an instance of
Ancestors(cls) ==
    CASE cls = "ValueError" -> {"ValueError", "Exception"}
      [] cls = "RuntimeError" -> {"RuntimeError", "Exception"}
      [] cls = "KeyError" -> {"KeyError", "LookupError", "Exception"}
      [] cls = "TypeError" -> {"TypeError", "Exception"}
      [] cls = "SystemExit" -> {"SystemExit", "BaseException"}
      [] cls = "requests.ConnectionError" ->
            {"requests.ConnectionError", "RequestException", "OSError", "Exception"}
      [] cls = "requests.Timeout" ->
            {"requests.Timeout", "RequestException", "OSError", "Exception"}
      [] cls = "requests.MissingSchema" ->
            {"requests.MissingSchema", "RequestException", "ValueError", "OSError", "Exception"}
      [] cls = "requests.JSONDecodeError" ->
            {"requests.JSONDecodeError", "RequestException", "json.JSONDecodeError",
             "ValueError", "OSError", "Exception"}
      [] cls = "json.JSONDecodeError" -> {"json.JSONDecodeError", "ValueError", "Exception"}

\* the except clauses of main, in the order they are tried
except_clauses ==
    << [catches |-> "ValueError", prints |-> TRUE, prefix |-> "validation error"],
       [catches |-> "FileNotFoundError", prints |-> TRUE, prefix |-> "error"],
       [catches |-> "RuntimeError", prints |-> TRUE, prefix |-> "execution error"],
       [catches |-> "RequestException", prints |-> TRUE, prefix |-> "network error"],
       [catches |-> "SystemExit", prints |-> FALSE, prefix |-> ""],
       [catches |-> "Exception", prints |-> TRUE, prefix |-> "unexpected error"] >>

\* the first except clause that matches an exception of class cls
handler_for(cls) ==
    except_clauses[CHOOSE k \in 1..Len(except_clauses) :
                      /\ except_clauses[k].catches \in Ancestors(cls)
                      /\ \A j \in 1..(k - 1) : except_clauses[j].catches \notin Ancestors(cls)]

\* where the run goes when a stage of the try block ends with outcome
after_ignoring_failure(outcome, next_pc) == next_pc

after(outcome, next_pc) == IF outcome.ok THEN next_pc ELSE "except"

NoParams == [package |-> PyNone, repository |-> PyNone, mode |-> PyNone, depth |-> PyNone]

serde == <<"s","e","r","d","e">>
registry_url == https_prefix \o <<"c",".","i","o","/">>

PackageArguments == {serde, <<" ">> \o serde \o <<" ">>, <<" ", " ">>}
RepositoryArguments == {registry_url, http_prefix \o <<"a","b">>, <<"/","a","b","/">>}
ModeArguments == {production, <<" ">> \o upper(test), <<"x">>}
DepthArguments == {<<"3">>, <<"1","5">>, <<"0">>, <<"a">>}
Absent == <<"absent">>

InitMain ==
    /\ pc = "parse_arguments"
    /\ args = NoParams /\ params = NoParams
    /\ exc = Pending
    /\ version = <<>> /\ deps = <<>>
    /\ requests = <<>> /\ stdout = <<>> /\ stderr = <<>>
    /\ exit_code = -1
    /\ stages = <<>> /\ failed_at = "none" /\ cause = "none"
    /\ registry = <<>>
    /\ IdleCall /\ IdleExtract

mainRest == <<callVars, exVars>>

\* lines 220-253, 258: argparse. --package and --repository are required, --mode
\* defaults to production, --depth is converted by int and defaults to 3; on a
\* bad command line argparse writes its own message and raises SystemExit(2)
ParseArguments ==
    /\ pc = "parse_arguments"
    /\ \E package \in PackageArguments \cup {Absent},
          repository \in RepositoryArguments,
          mode \in ModeArguments \cup {Absent},
          depth \in DepthArguments \cup {Absent} :
          IF package = Absent \/ (depth # Absent /\ ~int_of(PyStr(depth)).ok)
          THEN /\ exc' = Raise("SystemExit", "2")
               /\ stderr' = Append(stderr, [prefix |-> "usage", msg |-> "argparse error",
                                            detail |-> <<>>, status |-> NoStatus])
               /\ pc' = "except"
               /\ failed_at' = "arguments" /\ cause' = "arguments"
               /\ args' = args
          ELSE /\ args' = [package |-> PyStr(package),
                           repository |-> PyStr(repository),
                           mode |-> IF mode = Absent THEN PyStr(production) ELSE PyStr(mode),
                           depth |-> IF depth = Absent THEN PyInt(DefaultDepth)
                                     ELSE PyInt(int_of(PyStr(depth)).n)]
               /\ pc' = "validate_package_name"
               /\ UNCHANGED <<exc, stderr, failed_at, cause>>
    /\ UNCHANGED <<params, version, deps, requests, stdout, exit_code, stages, registry,
                   mainRest>>

\* one validator of lines 261-264 applied to its argument
Validate(name, outcome, next_pc) ==
    /\ params' = IF outcome.ok THEN [params EXCEPT ![name] = outcome.val] ELSE params
    /\ exc' = IF outcome.ok THEN exc ELSE outcome
    /\ failed_at' = IF outcome.ok THEN failed_at ELSE "validation"
    /\ cause' = IF outcome.ok THEN cause ELSE "validator"
    /\ pc' = after(outcome, next_pc)
    /\ UNCHANGED <<args, version, deps, requests, stdout, stderr, exit_code, registry,
                   mainRest>>

ValidatePackageName ==
    /\ pc = "validate_package_name"
    /\ stages' = Append(stages, "validation")
    /\ Validate("package", validate_package_name(args.package), "validate_repository")

ValidateRepository ==
    /\ pc = "validate_repository"
    /\ stages' = stages
    /\ Validate("repository", validate_repository(args.repository), "validate_mode")

ValidateMode ==
    /\ pc = "validate_mode"
    /\ stages' = stages
    /\ Validate("mode", validate_mode(args.mode), "validate_depth")

ValidateDepth ==
    /\ pc = "validate_depth"
    /\ stages' = stages
    /\ Validate("depth", validate_depth(args.depth), "print_configuration")

\* lines 267-271
PrintConfiguration ==
    /\ pc = "print_configuration"
    /\ stdout' = stdout \o << [kind |-> "title", text |-> <<>>],
                              [kind |-> "package", text |-> params.package.s],
                              [kind |-> "repository", text |-> params.repository.s],
                              [kind |-> "mode", text |-> params.mode.s],
                              [kind |-> "depth", text |-> <<params.depth.i>>] >>
    /\ pc' = "resolve_latest_version"
    /\ UNCHANGED <<args, params, exc, version, deps, requests, stderr, exit_code, stages,
                   failed_at, cause, registry, mainRest>>

Statuses == {200, 204, 404, 500}
Versions == {<<"1",".","0">>}
DependencyNames == {<<"s","y","n">>, <<"s","e","r","d","e","_","d","e","r","i","v","e">>}

RECURSIVE SeqsUpTo(_, _)
SeqsUpTo(S, n) ==
    IF n = 0 THEN {<<>>}
    ELSE LET shorter == SeqsUpTo(S, n - 1) IN
         shorter \cup {Append(q, x) : q \in shorter, x \in S}

\* what requests.get(url) can do: raise, or return a response.  A URL without
\* an http or https scheme makes requests raise MissingSchema before any I/O.
GetOutcomes(url, bodies) ==
    IF ~(startswith(url, http_prefix) \/ startswith(url, https_prefix))
    THEN {[raised |-> TRUE, exc |-> "requests.MissingSchema", why |-> "url",
           status |-> 0, body |-> [kind |-> "none"]]}
    ELSE {[raised |-> TRUE, exc |-> e, why |-> "transport", status |-> 0,
           body |-> [kind |-> "none"]] :
              e \in {"requests.ConnectionError", "requests.Timeout"}}
         \cup {[raised |-> FALSE, exc |-> "", why |-> "", status |-> st, body |-> b] :
                  st \in Statuses, b \in bodies}

\* response.json() of a body that is no JSON: the class depends on the requests release
JsonErrors == {"requests.JSONDecodeError", "json.JSONDecodeError"}

MetadataBodies ==
    {[kind |-> "metadata", max_version |-> v] : v \in Versions}
        \cup {[kind |-> k] : k \in {"not json", "no crate", "no max_version", "not an object"}}

DependenciesBodies ==
    {[kind |-> "dependencies", names |-> ns] :
        ns \in SeqsUpTo(DependencyNames, MaxDependencies)}
        \cup {[kind |-> k] : k \in {"not json", "no dependencies", "no crate_id"}}

\* the exceptions that reading a response of a given body can raise (none: {})
BodyErrors(body) ==
    CASE body.kind = "not json" -> {Raise(e, "invalid JSON") : e \in JsonErrors}
      [] body.kind \in {"no crate", "no max_version", "no dependencies", "no crate_id"} ->
            {Raise("KeyError", body.kind)}
      [] body.kind = "not an object" -> {Raise("TypeError", "indices must be integers")}
      [] OTHER -> {}

\* a stage of get_direct_dependencies_from_crates_io ends with an exception
FailStage(stage, why, outcome) ==
    /\ exc' = outcome
    /\ failed_at' = stage
    /\ cause' = why
    /\ pc' = after(outcome, "unreachable")

\* lines 188-194: GET {repository}{crate}, the status check, the latest version
ResolveLatestVersion ==
    /\ pc = "resolve_latest_version"
    /\ stages' = Append(stages, "metadata")
    /\ LET metadata_url == params.repository.s \o params.package.s IN
       /\ requests' = Append(requests, [kind |-> "metadata", url |-> metadata_url])
       /\ \E r \in GetOutcomes(metadata_url, MetadataBodies) :
             IF r.raised
             THEN /\ FailStage("metadata", r.why, Raise(r.exc, "request failed"))
                  /\ UNCHANGED <<registry, version>>
             ELSE /\ registry' = Append(registry, [status |-> r.status, body |-> r.body.kind])
                  /\ IF r.status # 200
                     THEN /\ FailStage("metadata", "status",
                                       Raise("RuntimeError", "cannot get the package data"))
                          /\ version' = version
                     ELSE IF BodyErrors(r.body) # {}
                     THEN /\ \E e \in BodyErrors(r.body) : FailStage("metadata", "body", e)
                          /\ version' = version
                     ELSE /\ version' = r.body.max_version
                          /\ pc' = "fetch_dependencies"
                          /\ UNCHANGED <<exc, failed_at, cause>>
    /\ UNCHANGED <<args, params, deps, stdout, stderr, exit_code, mainRest>>

\* lines 197-216: GET {repository}{crate}/{version}/dependencies, the status
\* check, one record per dependency
FetchDependencies ==
    /\ pc = "fetch_dependencies"
    /\ stages' = Append(stages, "dependencies")
    /\ LET deps_url == params.repository.s \o params.package.s \o <<"/">> \o version
                           \o <<"/","d","e","p","e","n","d","e","n","c","i","e","s">> IN
       /\ requests' = Append(requests, [kind |-> "dependencies", url |-> deps_url])
       /\ \E r \in GetOutcomes(deps_url, DependenciesBodies) :
             IF r.raised
             THEN /\ FailStage("dependencies", r.why, Raise(r.exc, "request failed"))
                  /\ UNCHANGED <<registry, deps>>
             ELSE /\ registry' = Append(registry, [status |-> r.status, body |-> r.body.kind])
                  /\ IF r.status # 200
                     THEN /\ FailStage("dependencies", "status",
                                       Raise("RuntimeError", "cannot get the dependency list"))
                          /\ deps' = deps
                     ELSE IF BodyErrors(r.body) # {}
                     THEN /\ \E e \in BodyErrors(r.body) : FailStage("dependencies", "body", e)
                          /\ deps' = deps
                     ELSE /\ deps' = [k \in 1..Len(r.body.names) |-> [name |-> r.body.names[k]]]
                          /\ pc' = "print_dependencies"
                          /\ UNCHANGED <<exc, failed_at, cause>>
    /\ UNCHANGED <<args, params, version, stdout, stderr, exit_code, mainRest>>

\* lines 277-283, then main returns and the process exits 0
PrintDependencies ==
    /\ pc = "print_dependencies"
    /\ stages' = Append(stages, "listing")
    /\ stdout' = stdout \o <<[kind |-> "header", text |-> params.package.s]>>
                    \o (IF deps # <<>>
                        THEN [k \in 1..Len(deps) |-> [kind |-> "dependency", text |-> deps[k].name]]
                        ELSE <<[kind |-> "no dependencies", text |-> <<>>]>>)
    /\ pc' = "done"
    /\ exit_code' = 0
    /\ UNCHANGED <<args, params, exc, version, deps, requests, stderr, failed_at, cause,
                   registry, mainRest>>

\* the exit code every except clause passes to sys.exit
handler_exit_code(e) == 1

\* lines 285-302: the first matching except clause prints its line and exits
HandleException ==
    /\ pc = "except"
    /\ LET h == handler_for(exc.exc) IN
       stderr' = IF h.prints
                 THEN Append(stderr, [prefix |-> h.prefix, msg |-> exc.msg,
                                      detail |-> exc.detail, status |-> exc.status])
                 ELSE stderr
    /\ exit_code' = handler_exit_code(exc)
    /\ pc' = "done"
    /\ UNCHANGED <<args, params, exc, version, deps, requests, stdout, stages, failed_at,
                   cause, registry, mainRest>>

NextMain ==
    \/ ParseArguments
    \/ ValidatePackageName
    \/ ValidateRepository
    \/ ValidateMode
    \/ ValidateDepth
    \/ PrintConfiguration
    \/ ResolveLatestVersion
    \/ FetchDependencies
    \/ PrintDependencies
    \/ HandleException

SpecMain == InitMain /\ [][NextMain]_vars

IsPrefix(p, q) == Len(p) <= Len(q) /\ SubSeq(q, 1, Len(p)) = p

DependencyLines == {k \in 1..Len(stdout) : stdout[k].kind = "dependency"}

ArgumentsParsed == args # NoParams

\* one of the four validators rejects the argument main hands it
SomeValidatorRejects ==
    \/ ~validate_package_name(args.package).ok
    \/ ~validate_repository(args.repository).ok
    \/ ~validate_mode(args.mode).ok
    \/ ~validate_depth(args.depth).ok

\* C1: the stages of main run in the order validation, metadata GET,
\* dependencies GET, listing, each only after every earlier one succeeded: when a
\* validator rejects its input no HTTP request is issued, when the metadata GET
\* fails no dependencies GET is issued, and a run in which a stage failed prints
\* no dependency line and exits 1.
C1_StagesInOrder ==
    /\ IsPrefix(stages, <<"validation", "metadata", "dependencies", "listing">>)
    /\ [k \in 1..Len(requests) |-> requests[k].kind]
          = SubSeq(stages, 2, Len(requests) + 1)
    /\ ArgumentsParsed /\ SomeValidatorRejects => requests = <<>>
    /\ requests # <<>> =>
          /\ params.package = validate_package_name(args.package).val
          /\ params.repository = validate_repository(args.repository).val
          /\ params.mode = validate_mode(args.mode).val
          /\ params.depth = validate_depth(args.depth).val
    /\ failed_at = "validation" => requests = <<>>
    /\ failed_at = "metadata" => Len(requests) = 1
    /\ Len(requests) = 2 => registry[1] = [status |-> 200, body |-> "metadata"]
    /\ Len(stages) = 4 =>
          /\ registry[2] = [status |-> 200, body |-> "dependencies"]
          /\ failed_at = "none"
    /\ failed_at \notin {"none", "arguments"} => stages[Len(stages)] = failed_at
    /\ failed_at # "none" =>
          /\ DependencyLines = {}
          /\ pc = "done" => exit_code = 1
    /\ exit_code = 0 => failed_at = "none" /\ Len(stages) = 4

C1_Witness ==
    /\ pc = "done"
    /\ args.depth = PyInt(15)
    /\ failed_at = "validation"
    /\ requests = <<>>
    /\ exit_code = 1

\* C2: every failed run ends with exit code 1 and a single diagnostic line whose
\* category says where the failure arose; here for the failures the
\* specification calls registry errors: a response with a non-success status or a malformed or
\* unexpected body (one without the latest-version field included) is reported
\* under the registry category (the RuntimeError clause), never as a validation,
\* network or unexpected error.
C2_RegistryFailureIsRegistryError ==
    pc = "done" /\ cause \in {"status", "body"} =>
        /\ exit_code = 1
        /\ Len(stderr) = 1
        /\ stderr[1].prefix = "execution error"

\* C3: when the registry answers the metadata GET with a non-success status, the
\* run fails with a registry error whose diagnostic names the status code, exits
\* 1 and prints no dependency line.
NonSuccess(st) == st < 200 \/ st > 299

C3_MetadataStatusNamed ==
    pc = "done" /\ registry # <<>> /\ NonSuccess(registry[1].status) =>
        /\ exit_code = 1
        /\ DependencyLines = {}
        /\ Len(stderr) = 1
        /\ stderr[1].prefix = "execution error"
        /\ registry[1].status \in stderr[1].status

====
